---- MODULE Spec2Model ----
(***************************************************************************)
(* Model of the SDN API (src/app/main.py): the process-wide cache filled   *)
(* by _fetch_csv_rows and the two request handlers healthz and getsdn.     *)
(*                                                                         *)
(* Handlers are asyncio coroutines on one event loop: a handler runs       *)
(* without interruption between two suspension points.  The only           *)
(* suspension of _fetch_csv_rows is the upstream request (lines 63-64), so *)
(* a request is two steps at most: from its start up to the upstream GET,  *)
(* and from the GET's return up to the response.                           *)
(*                                                                         *)
(* An Optional value is a sequence of length 0 (None) or 1 (the value).    *)
(* A string is a sequence of one-character strings.                        *)
(***************************************************************************)
EXTENDS Integers, Sequences, FiniteSets, TLC

\* ------------------------------------------------------------ bounds ----
NumProcs == 2
MaxTime == 3
MaxFetches == 2
MaxLimit == 2

\* line 12: the freshness window read from SDN_CACHE_TTL (3600 s when unset);
\* the model counts time in ticks and takes a window of two ticks
CACHE_TTL_SECONDS == 2

Procs == 1..NumProcs

None == <<>>
Some(x) == <<x>>

Min(a, b) == IF a <= b THEN a ELSE b
Max(a, b) == IF a >= b THEN a ELSE b

\* ----------------------------------------------------------- strings ----
UpperChars == <<"A","B","C","D","E","F","G","H","I","J","K","L","M",
                "N","O","P","Q","R","S","T","U","V","W","X","Y","Z">>
LowerChars == <<"a","b","c","d","e","f","g","h","i","j","k","l","m",
                "n","o","p","q","r","s","t","u","v","w","x","y","z">>
Whitespace == {" ", "\t", "\n"}

LowerChar(c) ==
  IF \E i \in 1..Len(UpperChars) : UpperChars[i] = c
  THEN LowerChars[CHOOSE i \in 1..Len(UpperChars) : UpperChars[i] = c]
  ELSE c

\* str.lower()
lower(s) == [i \in 1..Len(s) |-> LowerChar(s[i])]

\* str.strip(): drops leading and trailing whitespace only
strip(s) ==
  LET keep == {i \in 1..Len(s) : s[i] \notin Whitespace}
  IN  IF keep = {} THEN <<>>
      ELSE LET lo == CHOOSE i \in keep : \A j \in keep : i <= j
               hi == CHOOSE i \in keep : \A j \in keep : i >= j
           IN  SubSeq(s, lo, hi)

\* q in s  (the empty string is contained in every string)
Contains(q, s) ==
  \E i \in 0..(Len(s) - Len(q)) : SubSeq(s, i + 1, i + Len(q)) = q

\* ------------------------------------------------- upstream documents ----
JaneRoe == <<"J","a","n","e"," ","R","o","e">>
JohnRoe == <<"J","o","h","n"," ","R","o","e">>
ROE == <<"R","O","E">>
AnnLee == <<"A","n","n"," ","L","e","e">>

\* the spec's scenario: id,name / 1,Jane Roe / 2,John Roe
CsvA == [malformed |-> FALSE,
         header |-> <<"id", "name">>,
         lines |-> << <<<<"1">>, JaneRoe>>, <<<<"2">>, JohnRoe>> >>]
\* a wider file with a short row (no name), a blank line and an extra column
CsvB == [malformed |-> FALSE,
         header |-> <<"id", "schema", "name">>,
         lines |-> << <<<<"3">>, <<"P">>, JohnRoe>>,
                      <<<<"4">>, <<"P">>>>,
                      <<>>,
                      <<<<"5">>, <<"O">>, ROE>>,
                      <<<<"6">>, <<"P">>, AnnLee>>,
                      <<<<"7">>, <<"P">>, JaneRoe>> >>]
\* one row with punctuation in its name, one row with an empty name
JohnQPublic == <<"J","o","h","n"," ","Q","."," ","P","u","b","l","i","c">>
CsvC == [malformed |-> FALSE,
         header |-> <<"id", "name">>,
         lines |-> << <<<<"8">>, JohnQPublic>>, <<<<"9">>, <<>>>> >>]
\* a header and no data rows
CsvEmpty == [malformed |-> FALSE, header |-> <<"id", "name">>, lines |-> <<>>]
\* content the csv module refuses
CsvBad == [malformed |-> TRUE, header |-> <<>>, lines |-> <<>>]

\* the documents upstream serves to concurrent requests
Texts == {CsvB, CsvEmpty, CsvBad}
\* the name parameters concurrent requests carry
Names == { <<"a">>, <<" ","R","o","E">> }

\* the documents and name parameters of the runs with fair scheduling
FairTexts == {CsvEmpty, CsvBad}
FairNames == { <<" ","R","o","E">> }

\* the documents and name parameters of the one-request-at-a-time runs
SeqTexts == {CsvA, CsvB, CsvC, CsvEmpty, CsvBad}
SeqNames == { <<>>, <<"a">>, <<" ">>, <<"a", " ">>, <<" ", " ">>,
              <<"r","o","e">>, <<"R","O","E">>, <<" ","R","o","E">>,
              <<"j","a","n","e">>, <<"e"," ","r">>, <<"z","z">>,
              <<"r","o","e"," ">>, <<"j","o","h","n">>,
              <<"P","U","B","L","I","C">>, <<"q","."," ","p","u">> }

\* -------------------------------------------------------- csv decode ----
\* csv.DictReader: blank lines are skipped, each other line is mapped on the
\* header's columns, a short line leaves its missing columns None
DictRow(header, line) ==
  [c \in {header[i] : i \in 1..Len(header)} |->
     LET i == CHOOSE j \in 1..Len(header) : header[j] = c
     IN  IF i <= Len(line) THEN Some(line[i]) ELSE None]

DictReader(text) ==
  LET data == SelectSeq(text.lines, LAMBDA l : l # <<>>)
  IN  [i \in 1..Len(data) |-> DictRow(text.header, data[i])]

\* ------------------------------------------------------------- state ----
VARIABLES
  cache,         \* _Cache: [rows: Optional list of rows, ts: time]
  clock,         \* time.time()
  RESULT_LIMIT,  \* configuration read at start-up
  pc,            \* per request slot: "idle", "fetching", "done"
  kind,          \* the handler a slot runs: "healthz" or "getsdn"
  name,          \* getsdn's name parameter
  now,           \* _fetch_csv_rows' local now
  rows,          \* the handler's local rows: what _fetch_csv_rows returned
  exc,           \* the HTTPException status _fetch_csv_rows raised, 0 if none
  resp,          \* the response the handler produced
  fetches,       \* history: upstream GETs issued so far
  fid,           \* history: the number of the GET a slot is waiting for
  cacheFrom,     \* history: the GET whose commit wrote cache.rows / cache.ts
  lastFailed     \* history: the number of the last GET that failed, 0 if none

vars == <<cache, clock, RESULT_LIMIT, pc, kind, name, now, rows, exc, resp,
          fetches, fid, cacheFrom, lastFailed>>

\* ------------------------------------------------------- the handlers ----
NoResp == [http |-> 0, status |-> "", rows |-> None, detail |-> None,
           count |-> 0, results |-> <<>>]

\* line 55 with the comparison off by one: a Snapshot aged exactly ttl is served
CacheHitInclusive(t) ==
  cache.rows # None /\ (t - cache.ts) <= CACHE_TTL_SECONDS

\* line 55: the cache is fresh for a call that read the time t
CacheHit(t) == cache.rows # None /\ (t - cache.ts) < CACHE_TTL_SECONDS

\* r.get(c): None for a column the row does not have
Get(r, c) == IF c \in DOMAIN r THEN r[c] ELSE None

\* (r.get("name") or "")
NameOf(r) == IF Get(r, "name") = None THEN <<>> ELSE Get(r, "name")[1]

\* s[:n]
Slice(s, n) ==
  IF n >= 0 THEN SubSeq(s, 1, Min(n, Len(s)))
  ELSE SubSeq(s, 1, Max(0, Len(s) + n))

\* SdnItem.model_validate: the public fields, the others ignored
SdnItemFields == {"id", "name", "birth_date", "countries", "addresses",
                  "sanctions", "dataset"}
SdnItem(r) == [f \in SdnItemFields |-> Get(r, f)]

\* lines 93-96 with the row's name compared as it is, not lower-cased
SdnResponseCaseSensitive(nm, rs, limit) ==
  LET q == strip(lower(nm))
      matches == SelectSeq(rs, LAMBDA r : Contains(q, NameOf(r)))
      cut == Slice(matches, limit)
      items == [i \in 1..Len(cut) |-> SdnItem(cut[i])]
  IN  [NoResp EXCEPT !.http = 200, !.count = Len(matches), !.results = items]

\* lines 93-96 with count taken after the truncation
SdnResponseCountsCut(nm, rs, limit) ==
  LET q == strip(lower(nm))
      matches == SelectSeq(rs, LAMBDA r : Contains(q, lower(NameOf(r))))
      cut == Slice(matches, limit)
      items == [i \in 1..Len(cut) |-> SdnItem(cut[i])]
  IN  [NoResp EXCEPT !.http = 200, !.count = Len(cut), !.results = items]

\* getsdn, lines 93-96, on the rows _fetch_csv_rows returned
SdnResponse(nm, rs, limit) ==
  LET q == strip(lower(nm))
      matches == SelectSeq(rs, LAMBDA r : Contains(q, lower(NameOf(r))))
      cut == Slice(matches, limit)
      items == [i \in 1..Len(cut) |-> SdnItem(cut[i])]
  IN  [NoResp EXCEPT !.http = 200, !.count = Len(matches), !.results = items]

\* line 92 with every failure of _fetch_csv_rows answered as 503
getsdnAlways503(nm, rs, e, limit) ==
  IF e # 0
  THEN [NoResp EXCEPT !.http = 503, !.detail = Some(e)]
  ELSE SdnResponse(nm, rs[1], limit)

\* getsdn, line 92: an HTTPException of _fetch_csv_rows becomes the response
getsdn(nm, rs, e, limit) ==
  IF e # 0
  THEN [NoResp EXCEPT !.http = e, !.detail = Some(e)]
  ELSE SdnResponse(nm, rs[1], limit)

\* lines 84-88 without the except clause: the HTTPException escapes
healthzRaises(rs, e) ==
  IF e # 0
  THEN [NoResp EXCEPT !.http = e, !.detail = Some(e)]
  ELSE [NoResp EXCEPT !.http = 200, !.status = "ok", !.rows = Some(Len(rs[1]))]

\* healthz, lines 84-88
healthz(rs, e) ==
  IF e # 0
  THEN [NoResp EXCEPT !.http = 200, !.status = "degraded", !.detail = Some(e)]
  ELSE [NoResp EXCEPT !.http = 200, !.status = "ok", !.rows = Some(Len(rs[1]))]

Respond(k, nm, rs, e, limit) ==
  IF k = "healthz" THEN healthz(rs, e) ELSE getsdn(nm, rs, e, limit)

\* the handler of slot p ends: _fetch_csv_rows returned rs or raised e
Finish(p, k, nm, rs, e) ==
  /\ pc' = [pc EXCEPT ![p] = "done"]
  /\ rows' = [rows EXCEPT ![p] = rs]
  /\ exc' = [exc EXCEPT ![p] = e]
  /\ resp' = [resp EXCEPT ![p] = Respond(k, nm, rs, e, RESULT_LIMIT)]
  /\ now' = [now EXCEPT ![p] = 0]
  /\ fid' = [fid EXCEPT ![p] = 0]

\* lines 54-64 with a call that waits for a refresh in flight and is never
\* woken when that refresh ends
EnterWaits(p, k, nm) ==
  /\ kind' = [kind EXCEPT ![p] = k]
  /\ name' = [name EXCEPT ![p] = nm]
  /\ IF CacheHit(clock)
     THEN /\ Finish(p, k, nm, cache.rows, 0)
          /\ UNCHANGED fetches
     ELSE IF \E q \in Procs : pc[q] = "fetching"
     THEN /\ pc' = [pc EXCEPT ![p] = "waiting"]
          /\ UNCHANGED <<now, rows, exc, resp, fetches, fid>>
     ELSE /\ fetches < MaxFetches
          /\ pc' = [pc EXCEPT ![p] = "fetching"]
          /\ now' = [now EXCEPT ![p] = clock]
          /\ fetches' = fetches + 1
          /\ fid' = [fid EXCEPT ![p] = fetches + 1]
          /\ UNCHANGED <<rows, exc, resp>>
  /\ UNCHANGED <<cache, clock, RESULT_LIMIT, cacheFrom, lastFailed>>

\* lines 54-64 with a sliding expiration: a hit restarts the freshness window
EnterSliding(p, k, nm) ==
  /\ kind' = [kind EXCEPT ![p] = k]
  /\ name' = [name EXCEPT ![p] = nm]
  /\ IF CacheHit(clock)
     THEN /\ Finish(p, k, nm, cache.rows, 0)
          /\ cache' = [cache EXCEPT !.ts = clock]
          /\ UNCHANGED fetches
     ELSE /\ fetches < MaxFetches
          /\ pc' = [pc EXCEPT ![p] = "fetching"]
          /\ now' = [now EXCEPT ![p] = clock]
          /\ fetches' = fetches + 1
          /\ fid' = [fid EXCEPT ![p] = fetches + 1]
          /\ UNCHANGED <<cache, rows, exc, resp>>
  /\ UNCHANGED <<clock, RESULT_LIMIT, cacheFrom, lastFailed>>

\* lines 54-64 with the last failure remembered: no new GET after a failed one
EnterBackoff(p, k, nm) ==
  /\ kind' = [kind EXCEPT ![p] = k]
  /\ name' = [name EXCEPT ![p] = nm]
  /\ IF CacheHit(clock)
     THEN /\ Finish(p, k, nm, cache.rows, 0)
          /\ UNCHANGED fetches
     ELSE IF fetches > 0 /\ lastFailed = fetches
     THEN /\ Finish(p, k, nm, None, 503)
          /\ UNCHANGED fetches
     ELSE /\ fetches < MaxFetches
          /\ pc' = [pc EXCEPT ![p] = "fetching"]
          /\ now' = [now EXCEPT ![p] = clock]
          /\ fetches' = fetches + 1
          /\ fid' = [fid EXCEPT ![p] = fetches + 1]
          /\ UNCHANGED <<rows, exc, resp>>
  /\ UNCHANGED <<cache, clock, RESULT_LIMIT, cacheFrom, lastFailed>>

\* lines 54-64: read the time, answer from a fresh cache, else send the GET
Enter(p, k, nm) ==
  /\ kind' = [kind EXCEPT ![p] = k]
  /\ name' = [name EXCEPT ![p] = nm]
  /\ IF CacheHit(clock)
     THEN /\ Finish(p, k, nm, cache.rows, 0)
          /\ UNCHANGED fetches
     ELSE /\ fetches < MaxFetches
          /\ pc' = [pc EXCEPT ![p] = "fetching"]
          /\ now' = [now EXCEPT ![p] = clock]
          /\ fetches' = fetches + 1
          /\ fid' = [fid EXCEPT ![p] = fetches + 1]
          /\ UNCHANGED <<rows, exc, resp>>
  /\ UNCHANGED <<cache, clock, RESULT_LIMIT, cacheFrom, lastFailed>>

\* GET /healthz
CallHealthz(p) ==
  /\ pc[p] = "idle"
  /\ Enter(p, "healthz", <<>>)

\* Query(..., min_length=2): the framework checks the raw parameter
Accepted(nm) == Len(nm) >= 2

\* GET /getsdn?name=nm, accepted by the parameter validation
CallGetsdn(p, NS) ==
  /\ pc[p] = "idle"
  /\ \E nm \in NS : Accepted(nm) /\ Enter(p, "getsdn", nm)

\* GET /getsdn?name=nm, refused by the parameter validation: no handler runs
RejectGetsdn(p, NS) ==
  /\ pc[p] = "idle"
  /\ \E nm \in NS :
       /\ ~Accepted(nm)
       /\ kind' = [kind EXCEPT ![p] = "getsdn"]
       /\ name' = [name EXCEPT ![p] = nm]
       /\ pc' = [pc EXCEPT ![p] = "done"]
       /\ resp' = [resp EXCEPT ![p] = [NoResp EXCEPT !.http = 422,
                                                     !.detail = Some(422)]]
  /\ UNCHANGED <<cache, clock, RESULT_LIMIT, now, rows, exc, fetches, fid,
                 cacheFrom, lastFailed>>

\* lines 77-78 with the time read again at the commit
CommitAtCommitTime(p, rs) ==
  /\ cache' = [rows |-> Some(rs), ts |-> clock]
  /\ cacheFrom' = [rows |-> fid[p], ts |-> fid[p]]

\* lines 77-78 with the second store lost: rows of this cycle, ts of an older one
CommitTorn(p, rs) ==
  /\ cache' = [cache EXCEPT !.rows = Some(rs)]
  /\ cacheFrom' = [cacheFrom EXCEPT !.rows = fid[p]]

\* lines 77-78: the two stores, with no suspension between them
Commit(p, rs) ==
  /\ cache' = [rows |-> Some(rs), ts |-> now[p]]
  /\ cacheFrom' = [rows |-> fid[p], ts |-> fid[p]]

\* lines 64-80: the GET returned text, decoded, stored and returned
FetchSucceeds(p, TS) ==
  /\ pc[p] = "fetching"
  /\ \E text \in TS :
       /\ ~text.malformed
       /\ Commit(p, DictReader(text))
       /\ Finish(p, kind[p], name[p], Some(DictReader(text)), 0)
  /\ UNCHANGED <<clock, RESULT_LIMIT, kind, name, fetches, lastFailed>>

\* lines 67-69 with the cache dropped on a failed GET
FetchFailsEvicts(p) ==
  /\ pc[p] = "fetching"
  /\ Finish(p, kind[p], name[p], None, 503)
  /\ cache' = [rows |-> None, ts |-> 0]
  /\ cacheFrom' = [rows |-> 0, ts |-> 0]
  /\ lastFailed' = fid[p]
  /\ UNCHANGED <<clock, RESULT_LIMIT, kind, name, fetches>>

\* lines 67-69 with a retry inside the call: a failed GET is sent again
FetchFailsRetries(p) ==
  /\ pc[p] = "fetching"
  /\ fetches < MaxFetches
  /\ fetches' = fetches + 1
  /\ fid' = [fid EXCEPT ![p] = fetches + 1]
  /\ lastFailed' = fid[p]
  /\ UNCHANGED <<cache, clock, RESULT_LIMIT, pc, kind, name, now, rows, exc,
                 resp, cacheFrom>>

\* lines 67-69: the GET failed (transport error, timeout, non-2xx status)
FetchFails(p) ==
  /\ pc[p] = "fetching"
  /\ Finish(p, kind[p], name[p], None, 503)
  /\ lastFailed' = fid[p]
  /\ UNCHANGED <<cache, clock, RESULT_LIMIT, kind, name, fetches, cacheFrom>>

\* lines 71-75 with the stored rows dropped when the new text cannot be read
DecodeFailsUnsets(p, TS) ==
  /\ pc[p] = "fetching"
  /\ \E text \in TS : text.malformed
  /\ Finish(p, kind[p], name[p], None, 500)
  /\ lastFailed' = fid[p]
  /\ cache' = [cache EXCEPT !.rows = None]
  /\ UNCHANGED <<clock, RESULT_LIMIT, kind, name, fetches, cacheFrom>>

\* lines 71-75: the GET returned text that the csv module refuses
DecodeFails(p, TS) ==
  /\ pc[p] = "fetching"
  /\ \E text \in TS : text.malformed
  /\ Finish(p, kind[p], name[p], None, 500)
  /\ lastFailed' = fid[p]
  /\ UNCHANGED <<cache, clock, RESULT_LIMIT, kind, name, fetches, cacheFrom>>

\* the response is delivered; the slot is free for the next request
Return(p) ==
  /\ pc[p] = "done"
  /\ pc' = [pc EXCEPT ![p] = "idle"]
  /\ kind' = [kind EXCEPT ![p] = ""]
  /\ name' = [name EXCEPT ![p] = <<>>]
  /\ rows' = [rows EXCEPT ![p] = None]
  /\ exc' = [exc EXCEPT ![p] = 0]
  /\ resp' = [resp EXCEPT ![p] = NoResp]
  /\ UNCHANGED <<cache, clock, RESULT_LIMIT, now, fetches, fid, cacheFrom,
                 lastFailed>>

\* time passes
Tick ==
  /\ clock < MaxTime
  /\ clock' = clock + 1
  /\ UNCHANGED <<cache, RESULT_LIMIT, pc, kind, name, now, rows, exc, resp,
                 fetches, fid, cacheFrom, lastFailed>>

\* lines 48-51: the cache is empty when the process starts
Start ==
  /\ cache = [rows |-> None, ts |-> 0]
  /\ clock = 1
  /\ pc = [p \in Procs |-> "idle"]
  /\ kind = [p \in Procs |-> ""]
  /\ name = [p \in Procs |-> <<>>]
  /\ now = [p \in Procs |-> 0]
  /\ rows = [p \in Procs |-> None]
  /\ exc = [p \in Procs |-> 0]
  /\ resp = [p \in Procs |-> NoResp]
  /\ fetches = 0
  /\ fid = [p \in Procs |-> 0]
  /\ cacheFrom = [rows |-> 0, ts |-> 0]
  /\ lastFailed = 0

\* concurrent requests, one configured limit
Init == Start /\ RESULT_LIMIT = MaxLimit

Next ==
  \/ \E p \in Procs : CallHealthz(p)
  \/ \E p \in Procs : CallGetsdn(p, Names)
  \/ \E p \in Procs : RejectGetsdn(p, Names)
  \/ \E p \in Procs : FetchSucceeds(p, Texts)
  \/ \E p \in Procs : FetchFails(p)
  \/ \E p \in Procs : DecodeFails(p, Texts)
  \/ \E p \in Procs : Return(p)
  \/ Tick

Spec == Init /\ [][Next]_vars

\* one request at a time, every configured limit, more documents and names
InitSeq == Start /\ RESULT_LIMIT \in 0..MaxLimit

NextSeq ==
  \/ CallHealthz(1)
  \/ CallGetsdn(1, SeqNames)
  \/ RejectGetsdn(1, SeqNames)
  \/ FetchSucceeds(1, SeqTexts)
  \/ FetchFails(1)
  \/ DecodeFails(1, SeqTexts)
  \/ Return(1)
  \/ Tick

SpecSeq == InitSeq /\ [][NextSeq]_vars

\* the answer to an upstream GET: the client's 30 s timeout (line 63) bounds
\* the wait, and the event loop resumes a handler whose GET has ended
UpstreamAnswers(p) ==
  FetchSucceeds(p, FairTexts) \/ FetchFails(p) \/ DecodeFails(p, FairTexts)

NextFair ==
  \/ \E p \in Procs : CallHealthz(p)
  \/ \E p \in Procs : CallGetsdn(p, FairNames)
  \/ \E p \in Procs : UpstreamAnswers(p)
  \/ \E p \in Procs : Return(p)
  \/ Tick

\* concurrent requests, every GET answered in the end
SpecFair ==
  Init /\ [][NextFair]_vars /\ \A p \in Procs : WF_vars(UpstreamAnswers(p))

TypeOK ==
  /\ clock \in 1..MaxTime
  /\ fetches \in 0..MaxFetches
  /\ \A p \in Procs : pc[p] \in {"idle", "fetching", "done"}

\* ------------------------------------------------------------ claims ----
\* the upstream GETs sent and not yet answered
InFlight == Cardinality({p \in Procs : pc[p] = "fetching"})

\* C1: while the cache is cold and every GET issued so far is still
\* unanswered (the calls all began before any commit, upstream has not
\* failed), exactly one upstream GET has been issued for all the callers.
C1_ColdCallsShareOneFetch ==
  (cache.rows = None /\ fetches = InFlight) => fetches <= 1

\* C2: in every reachable state at most one upstream GET is in flight.
C2_AtMostOneFetchInFlight == InFlight <= 1

\* a step in which slot p enters _fetch_csv_rows
Enters(p) == pc[p] = "idle" /\ pc'[p] # "idle" /\ resp'[p].http # 422

\* C3: a call that finds a Snapshot with now - ts < ttl returns the stored
\* rows and issues no GET; a call that finds no Snapshot or now - ts >= ttl
\* starts a refresh (one GET).
C3_FreshServedStaleRefreshed ==
  [][\A p \in Procs :
       Enters(p) =>
         IF cache.rows # None /\ clock - cache.ts < CACHE_TTL_SECONDS
         THEN /\ pc'[p] = "done"
              /\ exc'[p] = 0
              /\ rows'[p] = cache.rows
              /\ fetches' = fetches
         ELSE /\ pc'[p] = "fetching"
              /\ fetches' = fetches + 1]_vars

\* C3 witness: two calls were answered with the stored rows and one GET was
\* ever issued, so one of them was served from the cache.
C3_Witness ==
  /\ fetches = 1
  /\ cache.rows # None
  /\ \A p \in Procs : pc[p] = "done" /\ exc[p] = 0 /\ rows[p] = cache.rows

\* C4: a finished search whose refresh failed at the fetch step while a
\* Snapshot is stored has answered 200 with the result computed from that
\* Snapshot (requests run one at a time: the Snapshot was stored, and stale,
\* when the search began).
C4_StaleServedOnFailedRefresh ==
  \A p \in Procs :
    (pc[p] = "done" /\ kind[p] = "getsdn" /\ exc[p] = 503
       /\ cache.rows # None)
    => resp[p] = SdnResponse(name[p], cache.rows[1], RESULT_LIMIT)

\* C5: the steps of a refresh cycle that fails (its start, and the failure of
\* its fetch or of its decode) leave the stored rows and timestamp unchanged.
C5_FailedRefreshKeepsCache ==
  [][\A p \in Procs :
       (\/ pc[p] = "idle" /\ pc'[p] = "fetching"
        \/ pc[p] = "fetching" /\ exc'[p] # 0)
       => cache' = cache]_vars

\* C5 witness: a refresh failed at the decode step and a Snapshot is stored.
C5_Witness ==
  \E p \in Procs : pc[p] = "done" /\ exc[p] = 500 /\ cache.rows # None

\* C6: every finished health call has a response and no error status: "ok"
\* with the number of rows getRows returned, or "degraded" with a detail.
C6_HealthNeverRaises ==
  \A p \in Procs :
    (pc[p] = "done" /\ kind[p] = "healthz") =>
      /\ resp[p].http = 200
      /\ IF exc[p] = 0
         THEN /\ resp[p].status = "ok"
              /\ rows[p] # None
              /\ resp[p].rows = Some(Len(rows[p][1]))
              /\ resp[p].detail = None
         ELSE /\ resp[p].status = "degraded"
              /\ resp[p].detail # None
              /\ resp[p].rows = None

\* C6 witness: one health call answered ok with rows, another degraded.
C6_Witness ==
  \E p, q \in Procs :
    /\ pc[p] = "done" /\ kind[p] = "healthz" /\ resp[p].status = "ok"
    /\ resp[p].rows # None /\ resp[p].rows[1] > 0
    /\ pc[q] = "done" /\ kind[q] = "healthz" /\ resp[q].status = "degraded"

\* C7: a search whose name is shorter than 2 after trimming is refused
\* without entering getRows: it is never waiting for upstream and its
\* response is the validation error.
C7_ShortTrimmedNameRejected ==
  \A p \in Procs :
    (pc[p] # "idle" /\ kind[p] = "getsdn" /\ Len(strip(name[p])) < 2) =>
      (pc[p] = "done" /\ resp[p].http = 422)

\* C8: the stored timestamp never decreases.
C8_TimestampNeverDecreases == [][cache'.ts >= cache.ts]_vars

\* the documents the csv module accepts
GoodTexts == {t \in SeqTexts : ~t.malformed}

\* C9: in every state the stored rows and the stored timestamp were written
\* by the same refresh cycle, and the stored rows are unset (timestamp 0) or
\* the whole decoded content of one upstream answer.
C9_SnapshotWhole ==
  /\ cacheFrom.rows = cacheFrom.ts
  /\ cache.rows = None => (cache.ts = 0 /\ cacheFrom.rows = 0)
  /\ cache.rows # None =>
       /\ cacheFrom.rows \in 1..fetches
       /\ \E t \in GoodTexts : cache.rows[1] = DictReader(t)

\* C9 witness: a Snapshot was committed while another call is still waiting
\* for upstream.
C9_Witness ==
  /\ cache.rows # None
  /\ \E p \in Procs : pc[p] = "fetching"

\* the positions of the rows that match the name
MatchIdx(rs, nm) ==
  {i \in 1..Len(rs) : Contains(strip(lower(nm)), lower(NameOf(rs[i])))}

SameLetter(a, b) ==
  \/ a = b
  \/ \E i \in 1..Len(UpperChars) : {a, b} = {UpperChars[i], LowerChars[i]}

\* q occurs in s as a contiguous run of characters, letter case ignored
Occurs(q, s) ==
  \E off \in 0..(Len(s) - Len(q)) :
    \A k \in 1..Len(q) : SameLetter(q[k], s[off + k])

\* the row's name, the empty string when the row has none
RowName(r) ==
  IF "name" \in DOMAIN r /\ r["name"] # None THEN r["name"][1] ELSE <<>>

\* C11: a row is counted exactly when the trimmed fragment occurs in the
\* row's name, letter case ignored and a missing name taken as empty; every
\* result is such a row, and a fragment of trimmed length >= 2 never returns
\* a row without a name.
C11_MatchIsCaselessSubstring ==
  \A p \in Procs :
    (pc[p] = "done" /\ kind[p] = "getsdn" /\ resp[p].http = 200) =>
      LET rs == rows[p][1]
          q == strip(name[p])
          M == {i \in 1..Len(rs) : Occurs(q, RowName(rs[i]))}
      IN  /\ resp[p].count = Cardinality(M)
          /\ \A k \in 1..Len(resp[p].results) :
               \E i \in M : resp[p].results[k] = SdnItem(rs[i])
          /\ (RESULT_LIMIT > 0 /\ M # {}) =>
               \E i \in M : /\ \A j \in M : i <= j
                            /\ resp[p].results[1] = SdnItem(rs[i])
          /\ Len(q) >= 2 =>
               \A k \in 1..Len(resp[p].results) :
                 resp[p].results[k]["name"] \notin {None, Some(<<>>)}
          /\ (rs = DictReader(CsvC) /\ Len(q) >= 2) =>
               resp[p].count =
                 (IF name[p] \in {<<"j","o","h","n">>,
                                  <<"P","U","B","L","I","C">>,
                                  <<"q","."," ","p","u">>}
                  THEN 1 ELSE 0)

\* C11 witness: a mixed-case fragment with a leading blank matched the three
\* Roe rows of a document that also holds a row without a name.
C11_Witness ==
  \E p \in Procs :
    /\ pc[p] = "done" /\ kind[p] = "getsdn" /\ resp[p].http = 200
    /\ name[p] = <<" ","R","o","E">>
    /\ rows[p] = Some(DictReader(CsvB))
    /\ resp[p].count = 3

\* C12: a search that triggered a refresh answers 503 when the fetch step
\* fails, 500 when the fetch succeeds and the decode step fails, and 200
\* only when both steps succeed.
C12_FailureKindsKept ==
  [][\A p \in Procs :
       kind[p] = "getsdn" =>
         /\ FetchFails(p) => resp'[p].http = 503
         /\ DecodeFails(p, SeqTexts) => resp'[p].http = 500
         /\ FetchSucceeds(p, SeqTexts) => resp'[p].http = 200
         /\ (pc[p] = "fetching" /\ resp'[p].http = 200) =>
              (exc'[p] = 0 /\ cache'.rows = rows'[p] /\ rows'[p] # None)]_vars

\* C12 witness: a search ended with the decode failure's status.
C12_Witness ==
  \E p \in Procs :
    pc[p] = "done" /\ kind[p] = "getsdn" /\ exc[p] = 500
      /\ resp[p].http = 500

\* C13: when the most recent refresh attempt failed, the next call that finds
\* no fresh Snapshot sends a new GET at once, and if upstream answers that
\* GET with a good document the call commits it and succeeds.
C13_RetryOnNextCall ==
  [][\A p \in Procs :
       /\ (/\ Enters(p)
           /\ fetches > 0 /\ lastFailed = fetches
           /\ ~(cache.rows # None /\ clock - cache.ts < CACHE_TTL_SECONDS))
          => (/\ pc'[p] = "fetching"
              /\ fetches' = fetches + 1
              /\ fid'[p] = fetches + 1)
       /\ (/\ FetchSucceeds(p, SeqTexts)
           /\ lastFailed > 0 /\ fid[p] = lastFailed + 1)
          => (/\ rows'[p] # None
              /\ cache'.rows = rows'[p]
              /\ cacheFrom'.rows = fid[p]
              /\ exc'[p] = 0
              /\ resp'[p].http = 200)]_vars

\* C13 witness: the first GET failed and the call after it fetched again and
\* committed the Snapshot it returned.
C13_Witness ==
  /\ lastFailed = 1
  /\ cacheFrom.rows = 2
  /\ \E p \in Procs : pc[p] = "done" /\ exc[p] = 0 /\ rows[p] = cache.rows

\* C14: a GET is issued only by a call entering getRows on an empty or stale
\* cache, one GET per such call; the answer of that GET, good or bad, ends
\* the call without another GET; a call served from the cache issues none.
C14_OneFetchPerMiss ==
  [][/\ fetches' # fetches =>
          /\ fetches' = fetches + 1
          /\ \E p \in Procs :
               /\ pc[p] = "idle" /\ pc'[p] = "fetching"
               /\ ~(cache.rows # None
                      /\ clock - cache.ts < CACHE_TTL_SECONDS)
     /\ \A p \in Procs :
          /\ (pc[p] = "idle" /\ pc'[p] = "done") => fetches' = fetches
          /\ (pc[p] = "fetching" /\ (pc'[p] # "fetching" \/ fid'[p] # fid[p]))
               => (pc'[p] = "done" /\ fetches' = fetches)
     /\ fetches' >= Cardinality({p \in Procs : pc'[p] = "fetching"})]_vars

\* C14 witness: both GETs of the run failed and each ended its call.
C14_Witness ==
  /\ fetches = 2
  /\ lastFailed = 2
  /\ \A p \in Procs : pc[p] = "done" /\ exc[p] # 0

\* C15: a call served from the cache, search's filtering included, leaves the
\* stored rows and timestamp as they are; they change only in the step that
\* commits a successful refresh, which stores the rows it returns.
C15_OnlyCommitWritesCache ==
  [][/\ \A p \in Procs :
          (pc[p] = "idle" /\ pc'[p] = "done") => cache' = cache
     /\ cache' # cache =>
          \E p \in Procs :
            /\ pc[p] = "fetching" /\ pc'[p] = "done"
            /\ exc'[p] = 0
            /\ cache' = [rows |-> rows'[p], ts |-> now[p]]]_vars

\* C15 witness: two searches were answered with matches from the stored rows
\* though one GET was ever issued, the Snapshot keeping its first timestamp
\* after time has passed.
C15_Witness ==
  /\ fetches = 1
  /\ cache.ts = 1
  /\ clock > 1
  /\ \A p \in Procs :
       /\ pc[p] = "done" /\ kind[p] = "getsdn" /\ resp[p].http = 200
       /\ rows[p] = cache.rows
       /\ resp[p].count > 0

\* C16: every call that has started and not yet answered, whatever the other
\* calls do, is answered in the end.
C16_EveryCallCompletes ==
  \A p \in Procs : (pc[p] \notin {"idle", "done"}) ~> (pc[p] = "done")

\* C16 witness: two calls wait for upstream at the same time, and one of
\* them was answered while the other was still waiting.
C16_Witness ==
  \E p, q \in Procs :
    /\ pc[p] = "done" /\ (exc[p] # 0 \/ rows[p] # None)
    /\ pc[q] = "fetching" /\ fid[q] = 1
    /\ fetches = 2

\* C17: a refresh reads the time when its call starts, in the step that sends
\* the GET, and its commit stores that time, however late the commit is; a
\* call is served from the cache only while now - ts < ttl, so the rows of a
\* hit come from a GET sent less than ttl before the hit.
C17_TimestampIsCallStart ==
  [][\A p \in Procs :
       /\ (pc[p] = "idle" /\ pc'[p] = "fetching") =>
            (now'[p] = clock /\ fid'[p] = fetches')
       /\ (pc[p] = "fetching" /\ pc'[p] = "fetching") =>
            (now'[p] = now[p] /\ fid'[p] = fid[p])
       /\ (pc[p] = "fetching" /\ cache' # cache /\ cacheFrom'.rows = fid[p]) =>
            (cache'.ts = now[p] /\ cache'.ts <= clock)
       /\ (Enters(p) /\ pc'[p] = "done") =>
            (/\ rows'[p] = cache.rows
             /\ cacheFrom.rows = cacheFrom.ts
             /\ clock - cache.ts < CACHE_TTL_SECONDS)]_vars

\* C17 witness: the Snapshot of GET 1, read at time 1, was committed after a
\* second call had found the cache empty at a later time.
C17_Witness ==
  /\ cache.rows # None
  /\ cacheFrom.rows = 1
  /\ cache.ts = 1
  /\ \E q \in Procs : pc[q] = "fetching" /\ fid[q] = 2 /\ now[q] > 1

\* C18: the stored rows are unset exactly when the timestamp is still 0, and
\* exactly when no refresh has committed; so once a refresh has succeeded no
\* later operation unsets them.
C18_RowsUnsetOnlyBeforeFirstCommit ==
  /\ (cache.rows = None) <=> (cache.ts = 0)
  /\ (cache.rows = None) <=> (cacheFrom.rows = 0)

\* C18 witness: rows are stored while the refresh of a later GET has failed
\* at the decode step and a search has been refused.
C18_Witness ==
  /\ cache.rows # None
  /\ lastFailed > cacheFrom.rows
  /\ \E p, q \in Procs :
       /\ pc[p] = "done" /\ exc[p] = 500
       /\ pc[q] = "done" /\ resp[q].http = 422

====
